---- MODULE Spec2Model ----
(***************************************************************************)
(* Background removal (BackgroundRemover component, "smart" variant).      *)
(*                                                                         *)
(* The component samples the border of a raster for background colours,    *)
(* runs a Sobel edge detector on the red channel, classifies every pixel   *)
(* into an alpha value, feathers the alpha mask and writes it back into    *)
(* the pixel buffer.  The algorithmic helpers are operators; the handlers  *)
(* of the component are actions.                                           *)
(*                                                                         *)
(* Numbers.  JavaScript numbers are IEEE doubles.  Every quantity the code *)
(* takes a square root of is an integer below 2^53, Math.sqrt is correctly *)
(* rounded and monotone and every threshold t is an integer, so            *)
(*      Math.sqrt(n) < t   is   n < t*t                                    *)
(*      Math.sqrt(n) > t   is   n > t*t                                    *)
(*      Math.sqrt(n) <= t  is   n <= t*t                                   *)
(* and the model compares squares.  The one place where the rounding of    *)
(* doubles shows is the fade of the feathering step, see FadeAlpha.        *)
(***************************************************************************)
EXTENDS Integers, Sequences, FiniteSets, TLC

VARIABLES
    originalImage,    \* useState: the uploaded image, held as the raster its
                      \* data URL draws on the canvas, or Null
    processedImage,   \* useState: the data URL of the result, or Null
    isProcessing,     \* useState: the processing flag
    settings,         \* useState: ProcessingSettings
    reading,          \* file reads in flight: the files of reader.onload
    pending,          \* image loads in flight: the closures of img.onload
    imageData,        \* img.onload: ctx.getImageData(...), data written in place
    backgroundColors, \* img.onload: the palette getBackgroundColors returned
    colors,           \* getBackgroundColors: the clusters with their counts
    edges,            \* img.onload: the mask detectEdges returned
    colorTolerance,   \* img.onload: settings.colorTolerance of the closure
    featherRadius,    \* img.onload: settings.feathering of the closure
    rawAlpha,         \* img.onload: alphaChannel after the classification loop
    alphaChannel,     \* img.onload: alphaChannel after the feathering step
    written,          \* feathering: the neighbour cells the step wrote to
    width,            \* img.onload: canvas.width
    height,           \* img.onload: canvas.height
    pc                \* position of the run under study

shellVars == <<originalImage, processedImage, isProcessing, settings, reading,
               pending>>
runVars == <<imageData, backgroundColors, colors, edges, colorTolerance,
             featherRadius, rawAlpha, alphaChannel, written, width, height>>
vars == <<shellVars, runVars, pc>>

\* null, and a local no run has set: a record, so that it compares with the
\* images and the data URLs, which are records.
Null == [null |-> TRUE]

\* A value that is not there (an array read out of range, a local not yet set).
Undefined == -1

----------------------------------------------------------------------------
(* Rasters *)

\* ImageData: data is the flat RGBA buffer, 4 bytes per pixel, row-major.
MakeImage(W, H, pix) ==
    [width |-> W, height |-> H,
     data |-> [i \in 0..(4 * W * H - 1) |-> pix[i \div 4][(i % 4) + 1]]]

Min(a, b) == IF a < b THEN a ELSE b

Sq(a) == a * a

\* TRUE, once v has its value: a loop written as a recursion tests it on the
\* result of the earlier iterations, which are then evaluated before the
\* later ones, as the loop runs them.
Computed(v) == v = v

----------------------------------------------------------------------------
(* colorDistance *)

\* The square of what colorDistance returns (see the note on numbers).
colorDistanceSq(r1, g1, b1, r2, g2, b2) ==
    Sq(r1 - r2) + Sq(g1 - g2) + Sq(b1 - b2)

\* colorDistance(...) < t, for an integer t >= 0.
DistanceBelow(dsq, t) == dsq < t * t

----------------------------------------------------------------------------
(* detectEdges *)

\* A slip of the channel offset: the Sobel sums read channel 1 (green).
EdgeSampleGreen(img, x, y) == img.data[(y * img.width + x) * 4 + 1]

\* data[(y * width + x) * 4]: the Sobel sums read channel 0 only.
EdgeSample(img, x, y) == img.data[(y * img.width + x) * 4]

SobelGx(img, x, y) ==
      (-1) * EdgeSample(img, x - 1, y - 1) + 1 * EdgeSample(img, x + 1, y - 1)
    + (-2) * EdgeSample(img, x - 1, y)     + 2 * EdgeSample(img, x + 1, y)
    + (-1) * EdgeSample(img, x - 1, y + 1) + 1 * EdgeSample(img, x + 1, y + 1)

SobelGy(img, x, y) ==
      (-1) * EdgeSample(img, x - 1, y - 1) + (-2) * EdgeSample(img, x, y - 1)
    + (-1) * EdgeSample(img, x + 1, y - 1)
    + 1 * EdgeSample(img, x - 1, y + 1) + 2 * EdgeSample(img, x, y + 1)
    + 1 * EdgeSample(img, x + 1, y + 1)

\* A Sobel that treats the border too, reading past it by clamping the
\* coordinates to the raster.
detectEdgesClamped(img, threshold) ==
    LET cl(v, n) == IF v < 0 THEN 0 ELSE IF v > n - 1 THEN n - 1 ELSE v
        at(x, y) == img.data[(cl(y, img.height) * img.width + cl(x, img.width)) * 4]
    IN  [idx \in 0..(img.width * img.height - 1) |->
            LET x == idx % img.width
                y == idx \div img.width
                gx == - at(x - 1, y - 1) + at(x + 1, y - 1) - 2 * at(x - 1, y)
                      + 2 * at(x + 1, y) - at(x - 1, y + 1) + at(x + 1, y + 1)
                gy == - at(x - 1, y - 1) - 2 * at(x, y - 1) - at(x + 1, y - 1)
                      + at(x - 1, y + 1) + 2 * at(x, y + 1) + at(x + 1, y + 1)
            IN  gx * gx + gy * gy > threshold * threshold]

\* The loops run y in 1..height-2 and x in 1..width-2; every other cell keeps
\* the false of new Array(width * height).fill(false).
detectEdges(img, threshold) ==
    [idx \in 0..(img.width * img.height - 1) |->
        LET x == idx % img.width
            y == idx \div img.width
        IN  IF x >= 1 /\ x < img.width - 1 /\ y >= 1 /\ y < img.height - 1
            THEN Sq(SobelGx(img, x, y)) + Sq(SobelGy(img, x, y)) > Sq(threshold)
            ELSE FALSE]

----------------------------------------------------------------------------
(* getBackgroundColors *)

SampleStride == 5
ClusterDistance == 30
PaletteSize == 3

\* The number of iterations of  for (let v = 0; v < n; v += 5).
StrideCount(n) == (n + SampleStride - 1) \div SampleStride

\* samplePixels, in the order of the pushes: for every 5th column the top and
\* the bottom pixel, then for every 5th row the left and the right pixel.
samplePixels(W, H) ==
    [i \in 1..(2 * StrideCount(W)) |->
        [x |-> SampleStride * ((i - 1) \div 2),
         y |-> IF i % 2 = 1 THEN 0 ELSE H - 1]]
    \o
    [i \in 1..(2 * StrideCount(H)) |->
        [x |-> IF i % 2 = 1 THEN 0 ELSE W - 1,
         y |-> SampleStride * ((i - 1) \div 2)]]

\* The r, g, b read at a sample position.
PixelRGB(img, x, y) ==
    LET index == (y * img.width + x) * 4
    IN  [r |-> img.data[index], g |-> img.data[index + 1],
         b |-> img.data[index + 2]]

\* The similarity test with <= for <.
SimilarColorInclusive(p, color) ==
    colorDistanceSq(p.r, p.g, p.b, color.r, color.g, color.b)
        <= ClusterDistance * ClusterDistance

\* colorDistance(r, g, b, color.r, color.g, color.b) < 30
SimilarColor(p, color) ==
    DistanceBelow(colorDistanceSq(p.r, p.g, p.b, color.r, color.g, color.b),
                  ClusterDistance)

\* The body of the forEach: the first similar cluster, in the order of the
\* list, counts the sample (break); without one the sample opens a cluster.
AddSample(cs, p) ==
    LET similar == {i \in 1..Len(cs) : SimilarColor(p, cs[i])}
    IN  IF similar = {}
        THEN Append(cs, [r |-> p.r, g |-> p.g, b |-> p.b, count |-> 1])
        ELSE LET i == CHOOSE j \in similar : \A k \in similar : j <= k
             IN  [cs EXCEPT ![i].count = @ + 1]

RECURSIVE CountSamples(_, _, _)
\* colors after the first n samples.
CountSamples(img, samples, n) ==
    IF n = 0 THEN <<>>
    ELSE LET s == samples[n]
         IN  AddSample(CountSamples(img, samples, n - 1),
                       PixelRGB(img, s.x, s.y))

\* colors when the forEach is over.
sampleColors(img) ==
    LET samples == samplePixels(img.width, img.height)
    IN  CountSamples(img, samples, Len(samples))

\* A comparator that also puts a after b when the counts are equal.
ComesAfterOnTie(a, b) == b.count - a.count >= 0

\* The comparator (a, b) => b.count - a.count puts a after b when it is
\* positive.
ComesAfter(a, b) == b.count - a.count > 0

RECURSIVE InsertSorted(_, _)
\* c into the sorted list s, behind every entry it does not come before.
InsertSorted(s, c) ==
    IF s = <<>> THEN <<c>>
    ELSE IF ComesAfter(s[Len(s)], c)
         THEN Append(InsertSorted(SubSeq(s, 1, Len(s) - 1), c), s[Len(s)])
         ELSE Append(s, c)

RECURSIVE SortFirst(_, _)
\* Array.prototype.sort (stable since ECMAScript 2019) of the first n entries.
SortFirst(cs, n) ==
    IF n = 0 THEN <<>> ELSE InsertSorted(SortFirst(cs, n - 1), cs[n])

sortColors(cs) == SortFirst(cs, Len(cs))

\* .slice(0, 3).map(({r, g, b}) => ({r, g, b}))
slicePalette(sorted) ==
    [i \in 1..Min(PaletteSize, Len(sorted)) |->
        [r |-> sorted[i].r, g |-> sorted[i].g, b |-> sorted[i].b]]

getBackgroundColors(img) == slicePalette(sortColors(sampleColors(img)))

----------------------------------------------------------------------------
(* removeBackground: the classification loop *)

Opaque == 255

\* Math.floor(255 * 0.3): 255 * 0.3 is 76.5 within an ulp, and its floor is 76.
EdgeAlpha == (255 * 3) \div 10

\* The background test with <= for <.
isBackgroundInclusive(p, palette, tolerance) ==
    \E i \in 1..Len(palette) :
        colorDistanceSq(p.r, p.g, p.b, palette[i].r, palette[i].g, palette[i].b)
            <= tolerance * tolerance

\* distance < settings.colorTolerance for some palette colour (the loop breaks
\* at the first).
isBackground(p, palette, tolerance) ==
    \E i \in 1..Len(palette) :
        DistanceBelow(colorDistanceSq(p.r, p.g, p.b,
                                      palette[i].r, palette[i].g, palette[i].b),
                      tolerance)

\* The branches with the edge test first: an edge pixel is translucent
\* whatever its colour.
classifyPixelEdgeFirst(background, edge) ==
    IF edge THEN EdgeAlpha
    ELSE IF background THEN 0
    ELSE Opaque

\* The two branches; without either the cell keeps the 255 of fill(255).
classifyPixel(background, edge) ==
    IF background /\ ~edge THEN 0
    ELSE IF background THEN EdgeAlpha
    ELSE Opaque

classifyAlpha(img, edgeMask, palette, tolerance) ==
    [idx \in 0..(img.width * img.height - 1) |->
        LET x == idx % img.width
            y == idx \div img.width
        IN  classifyPixel(isBackground(PixelRGB(img, x, y), palette, tolerance),
                          edgeMask[idx])]

----------------------------------------------------------------------------
(* removeBackground: the feathering step *)

\* The slider of the feathering setting: min 0, max 5, step 1.
FeatheringMax == 5

\* Math.floor(255 * (1 - Math.sqrt(k) / R)) for k = dx*dx + dy*dy <= R*R.
\* In real numbers this is 255 - n for the least n with n >= 255*sqrt(k)/R,
\* that is n*n*R*R >= 255*255*k.  The doubles agree for every R in 1..5 and
\* every k but one: for R = 5, k = 16 the code computes 1 - 4/5 =
\* 0.19999999999999996 and 255 times it is 50.99999999999999, floor 50,
\* where the real value is 51.
FadeTable ==
    [R \in 1..FeatheringMax |->
        [k \in 0..(R * R) |->
            IF R = 5 /\ k = 16 THEN 50
            ELSE 255 - (CHOOSE n \in 0..255 :
                            /\ n * n * R * R >= 255 * 255 * k
                            /\ n = 0 \/ (n - 1) * (n - 1) * R * R < 255 * 255 * k)]]

\* The fade turned round, rising with the distance from 0 to 255.
FadeAlphaRising(k, R) == 255 - FadeTable[R][k]

FadeAlpha(k, R) == FadeTable[R][k]

\* alphaChannel[i]: a read outside the array is undefined, which is neither
\* === 0 nor > 0.
ReadAlpha(a, i) == IF i \in DOMAIN a THEN a[i] ELSE Undefined

\* The cells (x, y) of  for y in R..H-R-1, for x in R..W-R-1, in loop order.
featherScan(W, H, R) ==
    IF W - 2 * R <= 0 \/ H - 2 * R <= 0 THEN <<>>
    ELSE [i \in 1..((W - 2 * R) * (H - 2 * R)) |->
            [x |-> R + ((i - 1) % (W - 2 * R)),
             y |-> R + ((i - 1) \div (W - 2 * R))]]

\* The offsets (dx, dy) of  for dy in -R..R, for dx in -R..R, in loop order.
featherOffsets(R) ==
    [i \in 1..((2 * R + 1) * (2 * R + 1)) |->
        [dx |-> ((i - 1) % (2 * R + 1)) - R,
         dy |-> ((i - 1) \div (2 * R + 1)) - R]]

\* The cell of alphaChannel and newAlpha the offset o of the scanned cell c
\* addresses.
neighborIdx(W, c, o) == (c.y + o.dy) * W + (c.x + o.dx)

\* distance <= featherRadius && alphaChannel[neighborIdx] > 0
featherReaches(alpha, W, R, c, o) ==
    /\ o.dx * o.dx + o.dy * o.dy <= R * R
    /\ ReadAlpha(alpha, neighborIdx(W, c, o)) > 0

\* The neighbour update without Math.min: the last cell scanned decides.
featherNeighborOverwrite(newAlpha, alpha, W, R, c, o) ==
    IF featherReaches(alpha, W, R, c, o)
    THEN [newAlpha EXCEPT
             ![neighborIdx(W, c, o)] = FadeAlpha(o.dx * o.dx + o.dy * o.dy, R)]
    ELSE newAlpha

\* The body of the innermost loop for the scanned cell c and the offset o:
\* newAlpha[neighborIdx] = Math.min(newAlpha[neighborIdx], floor(255 * fade)).
featherNeighbor(newAlpha, alpha, W, R, c, o) ==
    IF featherReaches(alpha, W, R, c, o)
    THEN [newAlpha EXCEPT
             ![neighborIdx(W, c, o)] =
                 Min(@, FadeAlpha(o.dx * o.dx + o.dy * o.dy, R))]
    ELSE newAlpha

RECURSIVE featherCell(_, _, _, _, _, _, _, _)
\* The two inner loops for the scanned cell c: the offsets lo..hi of offs in
\* loop order, the first half of them and then the rest.
featherCell(newAlpha, alpha, W, R, c, offs, lo, hi) ==
    IF lo > hi THEN newAlpha
    ELSE IF lo = hi THEN featherNeighbor(newAlpha, alpha, W, R, c, offs[lo])
    ELSE LET mid == (lo + hi) \div 2
             before == featherCell(newAlpha, alpha, W, R, c, offs, lo, mid)
         IN  IF Computed(before)
             THEN featherCell(before, alpha, W, R, c, offs, mid + 1, hi)
             ELSE before

\* if (alphaChannel[idx] === 0): the scanned cell c acts, its alpha being read
\* from alphaChannel (not from newAlpha).
featherActs(alpha, W, c) == ReadAlpha(alpha, c.y * W + c.x) = 0

RECURSIVE featherCells(_, _, _, _, _, _, _)
\* The scan over the cells lo..hi of order, the first half of them and then
\* the rest.
featherCells(newAlpha, alpha, W, R, order, lo, hi) ==
    IF lo > hi THEN newAlpha
    ELSE IF lo = hi
    THEN IF featherActs(alpha, W, order[lo])
         THEN LET offs == featherOffsets(R)
              IN  featherCell(newAlpha, alpha, W, R, order[lo], offs, 1, Len(offs))
         ELSE newAlpha
    ELSE LET mid == (lo + hi) \div 2
             before == featherCells(newAlpha, alpha, W, R, order, lo, mid)
         IN  IF Computed(before)
             THEN featherCells(before, alpha, W, R, order, mid + 1, hi)
             ELSE before

\* The cells the pass writes to, each with the coordinates it was addressed
\* by: whether a write happens depends on alphaChannel alone.
featherWrites(alpha, W, R, order) ==
    LET offs == featherOffsets(R)
    IN  {[x |-> order[n].x + offs[m].dx, y |-> order[n].y + offs[m].dy,
          idx |-> neighborIdx(W, order[n], offs[m])] :
            <<n, m>> \in {q \in (1..Len(order)) \X (1..Len(offs)) :
                            /\ featherActs(alpha, W, order[q[1]])
                            /\ featherReaches(alpha, W, R, order[q[1]], offs[q[2]])}}

\* The feathering pass with the scanned cells taken in the given order:
\* newAlpha starts as a copy of alphaChannel.
featherPass(alpha, W, H, R, order) ==
    [newAlpha |-> featherCells(alpha, alpha, W, R, order, 1, Len(order)),
     written |-> featherWrites(alpha, W, R, order)]

\* The feathering step with the radius defaulted: settings.feathering || 1.
featherDefaulted(alpha, W, H, R) ==
    LET r == IF R = 0 THEN 1 ELSE R
    IN  featherPass(alpha, W, H, r, featherScan(W, H, r))

\* if (settings.feathering > 0) { ... alphaChannel.splice(0, n, ...newAlpha) }
feather(alpha, W, H, R) ==
    IF R > 0
    THEN featherPass(alpha, W, H, R, featherScan(W, H, R))
    ELSE [newAlpha |-> alpha, written |-> {}]

----------------------------------------------------------------------------
(* removeBackground: applying the alpha channel *)

\* The write without the channel offset: data[i * 4] = alphaChannel[i].
applyAlphaToRed(data, alpha) ==
    [j \in DOMAIN data |->
        IF j % 4 = 0 /\ (j \div 4) \in DOMAIN alpha
        THEN alpha[j \div 4]
        ELSE data[j]]

\* data[i * 4 + 3] = alphaChannel[i] for every i below alphaChannel.length;
\* data is a Uint8ClampedArray, a write past its end is dropped.
applyAlpha(data, alpha) ==
    [j \in DOMAIN data |->
        IF j % 4 = 3 /\ (j \div 4) \in DOMAIN alpha
        THEN alpha[j \div 4]
        ELSE data[j]]

----------------------------------------------------------------------------
(* removeBackground: the img.onload callback *)

\* What the callback computes from the decoded image and the settings of its
\* closure, local by local.
onloadRun(img, st) ==
    LET cs == sampleColors(img)
        palette == slicePalette(sortColors(cs))
        mask == detectEdges(img, st.edgeDetection * 10)
        raw == classifyAlpha(img, mask, palette, st.colorTolerance)
        f == feather(raw, img.width, img.height, st.feathering)
    IN  [colors |-> cs, backgroundColors |-> palette, edges |-> mask,
         rawAlpha |-> raw, alphaChannel |-> f.newAlpha, written |-> f.written,
         imageData |-> [img EXCEPT !.data = applyAlpha(img.data, f.newAlpha)]]

\* canvas.toDataURL('image/png') after putImageData(img): the URL stands for
\* the browser's PNG of the canvas, whose bytes the model does not open.
toDataURL(img) == [type |-> "image/png", canvas |-> img]

\* img.onload of the load p: the image is drawn and read back, processed, put
\* back on the canvas and published; the processing flag falls.
imgOnload(p) ==
    /\ p \in pending
    /\ \E run \in {onloadRun(p.image, p.settings)} :
           /\ imageData' = run.imageData
           /\ backgroundColors' = run.backgroundColors
           /\ colors' = run.colors
           /\ edges' = run.edges
           /\ rawAlpha' = run.rawAlpha
           /\ alphaChannel' = run.alphaChannel
           /\ written' = run.written
           /\ processedImage' = toDataURL(run.imageData)
    /\ width' = p.image.width
    /\ height' = p.image.height
    /\ colorTolerance' = p.settings.colorTolerance
    /\ featherRadius' = p.settings.feathering
    /\ isProcessing' = FALSE
    /\ pending' = pending \ {p}
    /\ pc' = "done"
    /\ UNCHANGED <<originalImage, settings, reading>>

ImgOnload == \E p \in pending : imgOnload(p)

----------------------------------------------------------------------------
(* Inputs *)

\* useState's initial settings.
DefaultSettings == [colorTolerance |-> 30, edgeDetection |-> 5, feathering |-> 2]

\* Pixel colours (r, g, b, a).
Blue == <<0, 0, 255, 255>>
Red == <<255, 0, 0, 255>>
\* At distance 20 of Blue and sqrt(580) of RimBlue.
NearBlue == <<20, 0, 255, 255>>
\* At distance exactly 30 of Blue.
RimBlue == <<18, 24, 255, 128>>
Green == <<0, 255, 0, 0>>

\* A raster of one colour with two pixels painted over.
PaintedImage(W, H, base, p1, c1, p2, c2) ==
    MakeImage(W, H, [i \in 0..(W * H - 1) |->
                        IF i = p2 THEN c2 ELSE IF i = p1 THEN c1 ELSE base])

\* No run has set the locals of img.onload.
NoRun ==
    /\ imageData = Null /\ backgroundColors = Null /\ colors = Null
    /\ edges = Null /\ colorTolerance = Null /\ featherRadius = Null
    /\ rawAlpha = Null /\ alphaChannel = Null /\ written = Null
    /\ width = Null /\ height = Null

\* The component as constructed: no image, nothing in flight.
ShellIdle ==
    /\ originalImage = Null /\ processedImage = Null /\ isProcessing = FALSE
    /\ settings = DefaultSettings /\ reading = {} /\ pending = {}

----------------------------------------------------------------------------
(* detectEdges on its own *)

MaxEdgeW == 4
MaxEdgeH == 3

\* Reds 0, 5, 6 and 255 around the threshold 10 (one neighbour of red 5 gives a
\* gradient of exactly 10); Ink has the red of Black and other G, B, A.
EdgeColors ==
    {<<0, 0, 0, 255>>, <<0, 90, 255, 40>>, <<5, 0, 0, 255>>,
     <<6, 200, 7, 9>>, <<255, 255, 255, 255>>}

\* settings.edgeDetection: thresholds 10 and 100.
EdgeSettings == {1, 10}

InitEdges ==
    /\ pc = "detectEdges"
    /\ originalImage = Null /\ processedImage = Null /\ isProcessing = FALSE
    /\ reading = {} /\ pending = {}
    /\ \E e \in EdgeSettings : settings = [DefaultSettings EXCEPT !.edgeDetection = e]
    /\ \E W \in 1..MaxEdgeW, H \in 1..MaxEdgeH :
         /\ width = W /\ height = H
         /\ \E base, c1, c2 \in EdgeColors, p1, p2 \in 0..(W * H - 1) :
              imageData = PaintedImage(W, H, base, p1, c1, p2, c2)
    /\ backgroundColors = Null /\ colors = Null /\ edges = Null
    /\ colorTolerance = Null /\ featherRadius = Null /\ rawAlpha = Null
    /\ alphaChannel = Null /\ written = Null

\* const edges = detectEdges(imageData, settings.edgeDetection * 10)
DetectEdges ==
    /\ pc = "detectEdges"
    /\ edges' = detectEdges(imageData, settings.edgeDetection * 10)
    /\ pc' = "done"
    /\ UNCHANGED <<shellVars, imageData, backgroundColors, colors,
                   colorTolerance, featherRadius, rawAlpha, alphaChannel,
                   written, width, height>>

SpecEdges == InitEdges /\ [][DetectEdges]_vars

----------------------------------------------------------------------------
(* img.onload on its own: one image load in flight *)

MaxPipeW == 6
MaxPipeH == 5
\* The feathering settings tried: 0..MaxPipeFeather.
MaxPipeFeather == 2

\* The colour of the raster and the colour of the stroke on it.
PipeColorings == {<<Blue, Red>>, <<Blue, NearBlue>>, <<Red, Blue>>}

\* The 10x10 raster of the end-to-end scenario: a ring of one pixel of
\* (0,0,255,255) around 8x8 pixels of (255,0,0,255).
ScenarioImage ==
    MakeImage(10, 10, [i \in 0..99 |->
        IF i % 10 = 0 \/ i % 10 = 9 \/ i \div 10 = 0 \/ i \div 10 = 9
        THEN Blue ELSE Red])

\* Rasters of one colour with a stroke of one or two pixels, and the scenario.
PipeImages ==
    {PaintedImage(d[1], d[2], c[1], p, c[2], p + len - 1, c[2]) :
        d \in (1..MaxPipeW) \X (1..MaxPipeH), c \in PipeColorings,
        p \in 0..(MaxPipeW * MaxPipeH - 1), len \in 1..2}
    \cup {ScenarioImage}

PipeSettings ==
    [colorTolerance : {10, 30}, edgeDetection : {1, 10},
     feathering : 0..Min(MaxPipeFeather, FeatheringMax)]

\* removeBackground has run on the uploaded image: the flag is up and the
\* image load is in flight.
InitPipeline ==
    /\ pc = "onload"
    /\ originalImage \in PipeImages
    /\ settings \in PipeSettings
    /\ processedImage = Null
    /\ isProcessing = TRUE
    /\ reading = {}
    /\ pending = {[image |-> originalImage, settings |-> settings]}
    /\ NoRun

SpecPipeline == InitPipeline /\ [][ImgOnload]_vars

----------------------------------------------------------------------------
(* Properties of detectEdges *)

EdgesDone == pc = "done"

IsBorder(x, y) == x = 0 \/ y = 0 \/ x = width - 1 \/ y = height - 1

\* The red channel of pixel (x, y) of the raster under study.
RedAt(x, y) == imageData.data[4 * (y * width + x)]

\* C6: the edge mask has exactly W*H entries, every border pixel (x = 0,
\* y = 0, x = W-1 or y = H-1) is false whatever the pixels hold, and a raster
\* with W < 3 or H < 3 has an all-false mask.
C6_EdgeMaskBorder ==
    EdgesDone =>
        /\ DOMAIN edges = 0..(width * height - 1)
        /\ \A x \in 0..(width - 1), y \in 0..(height - 1) :
              IsBorder(x, y) => edges[y * width + x] = FALSE
        /\ (width < 3 \/ height < 3) => \A i \in DOMAIN edges : edges[i] = FALSE

\* C6's case: a raster of at least 3x3 on which an interior pixel is an edge
\* and a border pixel whose red differs from a neighbour's is not.
C6_Witness ==
    /\ EdgesDone /\ width >= 3 /\ height >= 3
    /\ \E i \in DOMAIN edges : edges[i]
    /\ \E x \in 0..(width - 2) :
          /\ RedAt(x, 0) - RedAt(x + 1, 0) \notin -10..10
          /\ ~edges[x]

SpecGx(x, y) ==
    - RedAt(x - 1, y - 1) + RedAt(x + 1, y - 1) - 2 * RedAt(x - 1, y)
    + 2 * RedAt(x + 1, y) - RedAt(x - 1, y + 1) + RedAt(x + 1, y + 1)

SpecGy(x, y) ==
    - RedAt(x - 1, y - 1) - 2 * RedAt(x, y - 1) - RedAt(x + 1, y - 1)
    + RedAt(x - 1, y + 1) + 2 * RedAt(x, y + 1) + RedAt(x + 1, y + 1)

\* The raster with green, blue and alpha of every pixel set to v.
WithOtherChannels(img, v) ==
    [img EXCEPT !.data = [j \in DOMAIN img.data |->
                             IF j % 4 = 0 THEN img.data[j] ELSE v]]

\* Every pixel has the colour of the first.
UniformColor(img) ==
    \A j \in DOMAIN img.data : j % 4 # 3 => img.data[j] = img.data[j % 4]

\* C7: an interior pixel is an edge exactly when Gx^2 + Gy^2 > threshold^2,
\* Gx and Gy being the Sobel sums over the red channel; green, blue and alpha
\* do not influence the mask; a raster of one colour has an all-false mask.
C7_SobelOnRed ==
    EdgesDone =>
        LET t == settings.edgeDetection * 10
        IN  /\ \A x \in 1..(width - 2), y \in 1..(height - 2) :
                  edges[y * width + x]
                      <=> (SpecGx(x, y) * SpecGx(x, y)
                           + SpecGy(x, y) * SpecGy(x, y) > t * t)
            /\ edges = detectEdges(WithOtherChannels(imageData, 0), t)
            /\ edges = detectEdges(WithOtherChannels(imageData, 255), t)
            /\ UniformColor(imageData) => \A i \in DOMAIN edges : edges[i] = FALSE

\* C7's case: an interior pixel is an edge, another pixel of the same raster
\* has a gradient of exactly the threshold and is not, and green differs
\* between two pixels.
C7_Witness ==
    /\ EdgesDone
    /\ \E x \in 1..(width - 2), y \in 1..(height - 2) : edges[y * width + x]
    /\ \E x \in 1..(width - 2), y \in 1..(height - 2) :
          /\ ~edges[y * width + x]
          /\ SpecGx(x, y) * SpecGx(x, y) + SpecGy(x, y) * SpecGy(x, y)
                 = Sq(settings.edgeDetection * 10)
    /\ \E i, j \in 0..(width * height - 1) :
          imageData.data[4 * i + 1] # imageData.data[4 * j + 1]

----------------------------------------------------------------------------
(* getBackgroundColors on its own *)

\* Rasters of up to MaxSampleLong by MaxSampleShort pixels, lying or standing.
MaxSampleLong == 6
MaxSampleShort == 2

SampleDims ==
    {d \in (1..MaxSampleLong) \X (1..MaxSampleLong) :
        d[1] <= MaxSampleShort \/ d[2] <= MaxSampleShort}

CornerColors == {Blue, RimBlue, Red}
PaintColors == {Blue, NearBlue, RimBlue, Red, Green}
BaseColors == {Blue, Red}

\* A raster of one colour with its four corners and one more pixel painted.
CornerImage(W, H, base, c00, c10, c01, c11, p, cp) ==
    MakeImage(W, H, [i \in 0..(W * H - 1) |->
        IF i = p THEN cp
        ELSE IF i = 0 THEN c00
        ELSE IF i = W - 1 THEN c10
        ELSE IF i = (H - 1) * W THEN c01
        ELSE IF i = W * H - 1 THEN c11
        ELSE base])

InitSampler ==
    /\ pc = "getBackgroundColors"
    /\ ShellIdle
    /\ \E d \in SampleDims :
         /\ width = d[1] /\ height = d[2]
         /\ \E base \in BaseColors, c00, c10, c01, c11 \in CornerColors,
               p \in 0..(d[1] * d[2] - 1), cp \in PaintColors :
              imageData = CornerImage(d[1], d[2], base, c00, c10, c01, c11, p, cp)
    /\ backgroundColors = Null /\ colors = Null /\ edges = Null
    /\ colorTolerance = Null /\ featherRadius = Null /\ rawAlpha = Null
    /\ alphaChannel = Null /\ written = Null

\* const backgroundColors = getBackgroundColors(imageData)
GetBackgroundColors ==
    /\ pc = "getBackgroundColors"
    /\ colors' = sampleColors(imageData)
    /\ backgroundColors' = getBackgroundColors(imageData)
    /\ pc' = "done"
    /\ UNCHANGED <<shellVars, imageData, edges, colorTolerance, featherRadius,
                   rawAlpha, alphaChannel, written, width, height>>

SpecSampler == InitSampler /\ [][GetBackgroundColors]_vars

----------------------------------------------------------------------------
(* Properties of getBackgroundColors *)

SamplerDone == pc = "done"

\* The border positions at stride 5 in scan order: the columns 0, 5, 10, ...
\* on the top row and on the bottom row, then the rows 0, 5, 10, ... on the
\* left column and on the right column.
BorderSampleCount == 2 * ((width + 4) \div 5) + 2 * ((height + 4) \div 5)

BorderSample(n) ==
    LET nx == 2 * ((width + 4) \div 5)
        k == IF n <= nx THEN (n - 1) \div 2 ELSE (n - nx - 1) \div 2
        first == IF n <= nx THEN n % 2 = 1 ELSE (n - nx) % 2 = 1
        x == IF n <= nx THEN 5 * k ELSE IF first THEN 0 ELSE width - 1
        y == IF n <= nx THEN (IF first THEN 0 ELSE height - 1) ELSE 5 * k
        at == 4 * (y * width + x)
    IN  <<imageData.data[at], imageData.data[at + 1], imageData.data[at + 2]>>

\* The colours u and v are at distance < 30.
Within30(u, v) ==
    (u[1] - v[1]) * (u[1] - v[1]) + (u[2] - v[2]) * (u[2] - v[2])
        + (u[3] - v[3]) * (u[3] - v[3]) < 900

RGBOf(c) == <<c.r, c.g, c.b>>

\* The first cluster of colors whose colour is at distance < 30 of u, 0 without.
FirstCluster(u) ==
    LET near == {j \in 1..Len(colors) : Within30(u, RGBOf(colors[j]))}
    IN  IF near = {} THEN 0 ELSE CHOOSE j \in near : \A k \in near : j <= k

RECURSIVE SumCounts(_, _)
SumCounts(cs, n) == IF n = 0 THEN 0 ELSE SumCounts(cs, n - 1) + cs[n].count

\* C8: the clusters are those of a scan of the stride-5 border samples in
\* order, each sample counted by the first cluster at distance < 30 and
\* opening one otherwise; the palette has min(3, K) entries, the counts sum to
\* the number of sampled positions, and samples of one colour give the
\* palette of that colour alone.
C8_PaletteOfClusters ==
    SamplerDone =>
        LET N == BorderSampleCount
            K == Len(colors)
        IN  /\ \A n \in 1..N : FirstCluster(BorderSample(n)) # 0
            /\ \A i \in 1..K :
                  /\ colors[i].count
                        = Cardinality({n \in 1..N : FirstCluster(BorderSample(n)) = i})
                  \* the cluster was opened by the first sample that none of
                  \* the clusters before it is near
                  /\ \E n \in 1..N :
                        /\ BorderSample(n) = RGBOf(colors[i])
                        /\ \A j \in 1..(i - 1) :
                              ~Within30(BorderSample(n), RGBOf(colors[j]))
                        /\ \A m \in 1..(n - 1) :
                              \E j \in 1..(i - 1) :
                                  Within30(BorderSample(m), RGBOf(colors[j]))
            /\ Len(backgroundColors) = (IF K < 3 THEN K ELSE 3)
            /\ SumCounts(colors, K) = N
            /\ (\A n \in 1..N : BorderSample(n) = BorderSample(1))
                  => /\ Len(backgroundColors) = 1
                     /\ RGBOf(backgroundColors[1]) = BorderSample(1)

\* C8's case: more than three clusters, two of them at distance exactly 30,
\* and a palette of three.
C8_Witness ==
    /\ SamplerDone
    /\ Len(colors) > 3
    /\ Len(backgroundColors) = 3
    /\ \E i, j \in 1..Len(colors) :
          (colors[i].r - colors[j].r) * (colors[i].r - colors[j].r)
          + (colors[i].g - colors[j].g) * (colors[i].g - colors[j].g)
          + (colors[i].b - colors[j].b) * (colors[i].b - colors[j].b) = 900

\* The place of the palette entry q in colors (cluster colours are distinct).
ClusterOf(q) == CHOOSE i \in 1..Len(colors) : RGBOf(colors[i]) = RGBOf(q)

\* Cluster i ranks before cluster j: a larger count, or the same count and
\* created earlier.
RanksBefore(i, j) ==
    \/ colors[i].count > colors[j].count
    \/ colors[i].count = colors[j].count /\ i < j

\* C9: the palette lists cluster colours by descending count, clusters of
\* equal count in the order of their creation, and the clusters left out rank
\* behind every one kept.
C9_PaletteOrder ==
    SamplerDone =>
        /\ \A a \in 1..Len(backgroundColors) :
              \E i \in 1..Len(colors) :
                  RGBOf(colors[i]) = RGBOf(backgroundColors[a])
        /\ \A a, b \in 1..Len(backgroundColors) :
              a < b => RanksBefore(ClusterOf(backgroundColors[a]),
                                   ClusterOf(backgroundColors[b]))
        /\ \A i \in 1..Len(colors) :
              (\A a \in 1..Len(backgroundColors) :
                    RGBOf(backgroundColors[a]) # RGBOf(colors[i]))
                 => \A a \in 1..Len(backgroundColors) :
                       RanksBefore(ClusterOf(backgroundColors[a]), i)

\* C9's case: four clusters, the palette's first and second of equal count,
\* the third tied with the cluster left out, and a cluster created later
\* ranking before an earlier one.
C9_Witness ==
    /\ SamplerDone
    /\ Len(colors) = 4
    /\ Len(backgroundColors) = 3
    /\ ClusterOf(backgroundColors[2]) > ClusterOf(backgroundColors[3])
    /\ colors[ClusterOf(backgroundColors[1])].count
          = colors[ClusterOf(backgroundColors[2])].count
    /\ \E i \in 1..4 :
          /\ \A a \in 1..3 : ClusterOf(backgroundColors[a]) # i
          /\ colors[i].count = colors[ClusterOf(backgroundColors[3])].count

----------------------------------------------------------------------------
(* The classification loop on its own *)

MaxClassW == 2
MaxClassH == 2

ClassColors == {Blue, NearBlue, RimBlue, Red}

\* Palettes: one to three different colours in any order.
PaletteColors ==
    {[r |-> 0, g |-> 0, b |-> 255], [r |-> 255, g |-> 0, b |-> 0],
     [r |-> 0, g |-> 255, b |-> 0]}

Palettes ==
    {<<a>> : a \in PaletteColors}
    \cup {q \in PaletteColors \X PaletteColors : q[1] # q[2]}
    \cup {q \in PaletteColors \X PaletteColors \X PaletteColors :
             q[1] # q[2] /\ q[1] # q[3] /\ q[2] # q[3]}

\* settings.colorTolerance: the ends of the slider and its initial value.
ToleranceValues == {10, 30, 100}

\* An edge mask with at most two cells set (n is "no cell").
SparseMask(n, e1, e2) == [i \in 0..(n - 1) |-> i = e1 \/ i = e2]

InitClassifier ==
    /\ pc = "classify"
    /\ ShellIdle
    /\ \E W \in 1..MaxClassW, H \in 1..MaxClassH :
         /\ width = W /\ height = H
         /\ \E base, c1 \in ClassColors, p1 \in 0..(W * H - 1) :
              imageData = PaintedImage(W, H, base, p1, c1, p1, c1)
         /\ \E e1, e2 \in 0..(W * H) : edges = SparseMask(W * H, e1, e2)
    /\ backgroundColors \in Palettes
    /\ colorTolerance \in ToleranceValues
    /\ colors = Null /\ featherRadius = Null /\ rawAlpha = Null
    /\ alphaChannel = Null /\ written = Null

\* The loop over every pixel that fills alphaChannel.
Classify ==
    /\ pc = "classify"
    /\ rawAlpha' = classifyAlpha(imageData, edges, backgroundColors, colorTolerance)
    /\ pc' = "done"
    /\ UNCHANGED <<shellVars, imageData, backgroundColors, colors, edges,
                   colorTolerance, featherRadius, alphaChannel, written,
                   width, height>>

SpecClassifier == InitClassifier /\ [][Classify]_vars

----------------------------------------------------------------------------
(* Properties of the classification loop *)

ClassifierDone == pc = "done"

\* The squared distances of pixel idx to the palette colours.
PaletteDistSq(idx) ==
    {(imageData.data[4 * idx] - backgroundColors[i].r)
         * (imageData.data[4 * idx] - backgroundColors[i].r)
     + (imageData.data[4 * idx + 1] - backgroundColors[i].g)
         * (imageData.data[4 * idx + 1] - backgroundColors[i].g)
     + (imageData.data[4 * idx + 2] - backgroundColors[i].b)
         * (imageData.data[4 * idx + 2] - backgroundColors[i].b) :
        i \in 1..Len(backgroundColors)}

MinDistSq(idx) ==
    CHOOSE d \in PaletteDistSq(idx) : \A e \in PaletteDistSq(idx) : d <= e

\* C1: a pixel's raw alpha is 0 when its least distance to a palette colour
\* is below the tolerance and it is no edge, 76 when the distance is below
\* the tolerance and it is an edge, 255 otherwise.
C1_AlphaClassifier ==
    ClassifierDone =>
        /\ DOMAIN rawAlpha = 0..(width * height - 1)
        /\ \A idx \in 0..(width * height - 1) :
              LET near == MinDistSq(idx) < colorTolerance * colorTolerance
              IN  /\ near /\ ~edges[idx] => rawAlpha[idx] = 0
                  /\ near /\ edges[idx] => rawAlpha[idx] = 76
                  /\ ~near => rawAlpha[idx] = 255
                  /\ rawAlpha[idx] \in {0, 76, 255}

\* C1's case: the three values occur in one mask, one 0 for a pixel of a
\* palette colour, one 255 for a pixel at exactly the tolerance of the palette.
C1_Witness ==
    /\ ClassifierDone
    /\ \E i, j, k \in DOMAIN rawAlpha :
          /\ rawAlpha[i] = 0 /\ MinDistSq(i) = 0
          /\ rawAlpha[j] = 76
          /\ rawAlpha[k] = 255
          /\ MinDistSq(k) = colorTolerance * colorTolerance

----------------------------------------------------------------------------
(* The feathering step on its own *)

\* Masks are up to FeatherMargin cells wider than the 2R+1 cells a mask needs
\* to hold one scanned cell.
FeatherMargin == 1

\* Widths tried with radius R: 1..3, and 2R+1 and more.
FeatherWidths(R) == (1..3) \cup ((2 * R + 1)..(2 * R + 1 + FeatherMargin))

\* Heights tried with radius R: 1..3, and 2R+1.
FeatherHeights(R) == (1..3) \cup {2 * R + 1}

\* The cells the scan visits, and -1 for none.
ScanWindow(W, H, R) ==
    {y * W + x : x \in R..(W - R - 1), y \in R..(H - R - 1)} \cup {-1}

\* A mask of one value with up to two zeros in the scanned window and one
\* more cell painted.
PaintedMask(W, H, base, s1, s2, p, v) ==
    [i \in 0..(W * H - 1) |->
        IF i = p THEN v ELSE IF i = s1 \/ i = s2 THEN 0 ELSE base]

InitFeather ==
    /\ pc = "feather"
    /\ ShellIdle
    /\ featherRadius \in 0..FeatheringMax
    /\ \E W \in FeatherWidths(featherRadius), H \in FeatherHeights(featherRadius) :
         /\ width = W /\ height = H
         /\ \E base \in {0, 255}, s1, s2 \in ScanWindow(W, H, featherRadius),
               p \in 0..(W * H - 1), v \in {0, 76, 255} :
              rawAlpha = PaintedMask(W, H, base, s1, s2, p, v)
    /\ imageData = Null /\ backgroundColors = Null /\ colors = Null
    /\ edges = Null /\ colorTolerance = Null
    /\ alphaChannel = Null /\ written = Null

\* The feathering step of img.onload.
Feather ==
    /\ pc = "feather"
    /\ \E f \in {feather(rawAlpha, width, height, featherRadius)} :
           /\ alphaChannel' = f.newAlpha
           /\ written' = f.written
    /\ pc' = "done"
    /\ UNCHANGED <<shellVars, imageData, backgroundColors, colors, edges,
                   colorTolerance, featherRadius, rawAlpha, width, height>>

SpecFeather == InitFeather /\ [][Feather]_vars

----------------------------------------------------------------------------
(* Properties of the feathering step *)

FeatherDone == pc = "done"

CellX(i) == i % width
CellY(i) == i \div width

\* The square of the distance between the cells i and j.
CellDistSq(i, j) ==
    (CellX(i) - CellX(j)) * (CellX(i) - CellX(j))
    + (CellY(i) - CellY(j)) * (CellY(i) - CellY(j))

\* The sources: the cells of raw alpha 0 at least R from every side.
FeatherSources ==
    {i \in DOMAIN rawAlpha :
        /\ rawAlpha[i] = 0
        /\ featherRadius <= CellX(i) /\ CellX(i) < width - featherRadius
        /\ featherRadius <= CellY(i) /\ CellY(i) < height - featherRadius}

\* For every cell, the squares of its distances to the sources within R.
SourceDistSq ==
    LET src == FeatherSources
    IN  [i \in DOMAIN rawAlpha |->
            {CellDistSq(s, i) :
                s \in {t \in src : CellDistSq(t, i) <= featherRadius * featherRadius}}]

LeastOf(S) == CHOOSE a \in S : \A b \in S : a <= b

GreatestOf(S) == CHOOSE a \in S : \A b \in S : a >= b

Reversed(q) == [n \in 1..Len(q) |-> q[Len(q) + 1 - n]]

\* C3: with R >= 1 the output at a cell is its raw value when that is 0 or no
\* source lies within R, and otherwise the least of its raw value and the
\* candidates floor(255 * (1 - d/R)) of the sources within R, evaluated as the
\* code evaluates them; the scan in reverse order gives the same mask; every
\* cell written lies inside the mask.
C3_FeatherIsMinOverSources ==
    FeatherDone /\ featherRadius >= 1 =>
        LET dist == SourceDistSq
        IN  /\ DOMAIN alphaChannel = DOMAIN rawAlpha
            /\ \A i \in DOMAIN rawAlpha :
                  alphaChannel[i] =
                      IF rawAlpha[i] = 0 \/ dist[i] = {}
                      THEN rawAlpha[i]
                      ELSE Min(rawAlpha[i],
                               LeastOf({FadeAlpha(d, featherRadius) : d \in dist[i]}))
            /\ alphaChannel =
                  featherPass(rawAlpha, width, height, featherRadius,
                              Reversed(featherScan(width, height, featherRadius))).newAlpha
            /\ \A w \in written :
                  /\ w.x \in 0..(width - 1)
                  /\ w.y \in 0..(height - 1)
                  /\ w.idx = w.y * width + w.x

\* C3's case: a cell within R of two sources whose candidates differ is
\* lowered, and a cell of raw alpha 0 too near a side to be a source leaves a
\* neighbour within R at its raw value.
C3_Witness ==
    /\ FeatherDone /\ featherRadius >= 2
    /\ LET dist == SourceDistSq
           src == FeatherSources
       IN  /\ \E i \in DOMAIN rawAlpha :
                 /\ Cardinality(dist[i]) >= 2
                 /\ rawAlpha[i] > 0
                 /\ alphaChannel[i] < rawAlpha[i]
           /\ \E z \in DOMAIN rawAlpha :
                 /\ rawAlpha[z] = 0 /\ z \notin src
                 /\ \E i \in DOMAIN rawAlpha :
                       /\ CellDistSq(z, i) <= featherRadius * featherRadius
                       /\ rawAlpha[i] > 0 /\ alphaChannel[i] = rawAlpha[i]

\* The cells of raw alpha 0.
ZeroRegion == {i \in DOMAIN rawAlpha : rawAlpha[i] = 0}

\* For every cell of raw alpha > 0 within R of the zero-alpha region, the
\* square of its distance to the region.
RegionDistSq ==
    LET zero == ZeroRegion
        within == {i \in DOMAIN rawAlpha :
                      /\ rawAlpha[i] > 0
                      /\ \E z \in zero :
                            CellDistSq(z, i) <= featherRadius * featherRadius}
    IN  [i \in within |-> LeastOf({CellDistSq(z, i) : z \in zero})]

\* C4 is about the raw masks of the classifier: it is settled on the runs of
\* the whole callback (SpecPipeline), whose rawAlpha is such a mask.
\*
\* C4 as stated: of two cells of raw alpha > 0 within R of the zero-alpha
\* region, the one no farther from the region has the feathered alpha that
\* is no smaller.
C4_MonotoneFromRegion ==
    FeatherDone /\ featherRadius >= 1 =>
        LET dist == RegionDistSq
        IN  \A i, j \in DOMAIN dist :
                dist[i] <= dist[j] => alphaChannel[i] >= alphaChannel[j]

\* For every cell of raw alpha > 0 with a source within R, the square of its
\* distance to the farthest such source.
FarthestSourceSq ==
    LET dist == SourceDistSq
    IN  [i \in {k \in DOMAIN rawAlpha : rawAlpha[k] > 0 /\ dist[k] # {}} |->
            GreatestOf(dist[i])]

\* C4 as amended: of two cells of raw alpha > 0 that each have a source within
\* R, the one whose raw alpha is no smaller and whose farthest source within
\* R is no farther has the feathered alpha that is no smaller.
C4_MonotoneFromFarthestSource ==
    FeatherDone /\ featherRadius >= 1 =>
        LET far == FarthestSourceSq
        IN  \A i, j \in DOMAIN far :
                rawAlpha[i] >= rawAlpha[j] /\ far[i] <= far[j]
                    => alphaChannel[i] >= alphaChannel[j]

\* C4's case: two cells lowered by feathering, the one with the nearer
\* farthest source keeping strictly more alpha, the other within R of two
\* sources.
C4_Witness ==
    /\ FeatherDone /\ featherRadius >= 2
    /\ LET far == FarthestSourceSq
           dist == SourceDistSq
       IN  \E i, j \in DOMAIN far :
              /\ Cardinality(dist[j]) >= 2
              /\ rawAlpha[i] >= rawAlpha[j]
              /\ far[i] < far[j]
              /\ alphaChannel[i] > alphaChannel[j]
              /\ alphaChannel[i] < rawAlpha[i]

\* C5: with the feathering setting 0 the final mask is the raw mask.
C5_FeatherZeroIsIdentity ==
    FeatherDone /\ featherRadius = 0 =>
        alphaChannel = rawAlpha /\ written = {}

\* C5's case: radius 0 on a mask of 3x3 whose centre is 0 and has a
\* neighbour of raw alpha > 0.
C5_Witness ==
    /\ FeatherDone /\ featherRadius = 0
    /\ width = 3 /\ height = 3
    /\ rawAlpha[4] = 0 /\ rawAlpha[5] > 0
    /\ alphaChannel[5] = rawAlpha[5]

----------------------------------------------------------------------------
(* Properties of the whole callback *)

PipelineDone == pc = "done"

\* C2: the raster put back on the canvas has the width, the height and the
\* buffer length of the input; its R, G and B bytes are the input's and its
\* A bytes are the final mask, pixel by pixel.
C2_OutputFrame ==
    PipelineDone =>
        /\ imageData.width = originalImage.width
        /\ imageData.height = originalImage.height
        /\ DOMAIN imageData.data = DOMAIN originalImage.data
        /\ DOMAIN alphaChannel = 0..(width * height - 1)
        /\ 4 * width * height = Cardinality(DOMAIN imageData.data)
        /\ \A j \in DOMAIN imageData.data :
              imageData.data[j] =
                  IF j % 4 = 3 THEN alphaChannel[j \div 4]
                  ELSE originalImage.data[j]

\* C2's case: a run with feathering whose output has a pixel of non-zero red
\* whose alpha is neither the input's nor the raw mask's.
C2_Witness ==
    /\ PipelineDone /\ featherRadius >= 1
    /\ \E i \in DOMAIN alphaChannel :
          /\ alphaChannel[i] # rawAlpha[i]
          /\ alphaChannel[i] # originalImage.data[4 * i + 3]
          /\ originalImage.data[4 * i] > 0
          /\ imageData.data[4 * i] = originalImage.data[4 * i]
          /\ imageData.data[4 * i + 3] = alphaChannel[i]

\* The settings of the end-to-end scenario.
ScenarioSettings ==
    [colorTolerance |-> 30, edgeDetection |-> 1, feathering |-> 0]

ScenarioDone ==
    /\ PipelineDone
    /\ originalImage = ScenarioImage
    /\ settings = ScenarioSettings

\* The ring of one pixel around the 10x10 raster.
OnRing(idx) ==
    \/ idx % 10 = 0 \/ idx % 10 = 9
    \/ idx \div 10 = 0 \/ idx \div 10 = 9

\* C10: in the scenario the output alpha is 0 on every ring pixel that is
\* not flagged as an edge and 255 on every interior pixel.
C10_Scenario ==
    ScenarioDone =>
        \A idx \in 0..99 :
            IF OnRing(idx)
            THEN ~edges[idx] => imageData.data[4 * idx + 3] = 0
            ELSE imageData.data[4 * idx + 3] = 255

\* C10's case: the scenario has run, the palette is the ring's colour alone,
\* an interior pixel next to the ring is flagged as an edge and keeps 255.
C10_Witness ==
    /\ ScenarioDone
    /\ Len(backgroundColors) = 1
    /\ edges[11] /\ imageData.data[4 * 11 + 3] = 255
    /\ ~edges[0] /\ imageData.data[3] = 0

----------------------------------------------------------------------------
(* The simple variant of the component: removeBackground by luminance *)

\* brightness > settings.threshold * num / den, for the brightness
\* r * 0.299 + g * 0.587 + b * 0.114 of the simple loop, compared on exact
\* thousandths.  The doubles of the code differ from the exact value by a
\* few 1e-14; the colours and thresholds the model runs are off the ties,
\* where that could change the comparison.
simpleBrighter(r, g, b, threshold, num, den) ==
    (299 * r + 587 * g + 114 * b) * den > 1000 * threshold * num

\* isEdge of the simple loop for the byte offset i of a pixel:
\* i > canvas.width * 4 && i < data.length - canvas.width * 4.
simpleIsEdge(i, W, len) == i > W * 4 /\ i < len - W * 4

\* The two branches of the simple loop: the alpha a pixel ends with.
simplePixelAlpha(r, g, b, a, isEdge, threshold, smoothing) ==
    IF simpleBrighter(r, g, b, threshold, 1, 1) /\ ~isEdge THEN 0
    ELSE IF simpleBrighter(r, g, b, threshold, 8, 10)
    THEN IF a - smoothing * 20 > 0 THEN a - smoothing * 20 ELSE 0
    ELSE a

\* The simple loop over the buffer: only the alpha bytes are written, each
\* from the bytes of its own pixel.
simpleLoop(data, W, threshold, smoothing) ==
    LET len == Cardinality(DOMAIN data)
    IN  [j \in DOMAIN data |->
            IF j % 4 = 3
            THEN LET i == j - 3
                 IN  simplePixelAlpha(data[i], data[i + 1], data[i + 2],
                                      data[i + 3], simpleIsEdge(i, W, len),
                                      threshold, smoothing)
            ELSE data[j]]

\* img.onload of the simple variant for the load p.
simpleImgOnload(p) ==
    /\ p \in pending
    /\ \E out \in {[p.image EXCEPT !.data =
                       simpleLoop(p.image.data, p.image.width,
                                  p.settings.threshold, p.settings.smoothing)]} :
           /\ imageData' = out
           /\ processedImage' = toDataURL(out)
    /\ width' = p.image.width
    /\ height' = p.image.height
    /\ isProcessing' = FALSE
    /\ pending' = pending \ {p}
    /\ pc' = "done"
    /\ UNCHANGED <<originalImage, settings, reading, backgroundColors, colors,
                   edges, colorTolerance, featherRadius, rawAlpha,
                   alphaChannel, written>>

SimpleImgOnload == \E p \in pending : simpleImgOnload(p)

(* The simple img.onload on its own: one image load in flight *)

MaxSimpleW == 3
MaxSimpleH == 4

White == <<255, 255, 255, 255>>
Black == <<0, 0, 0, 255>>
\* Of brightness 110.
Gray == <<110, 110, 110, 255>>
FaintGray == <<110, 110, 110, 30>>

SimpleColors == {White, Black, Gray, FaintGray}

\* Rasters of one colour with one pixel of another.
SimpleImages ==
    {PaintedImage(d[1], d[2], c[1], p, c[2], p, c[2]) :
        d \in (1..MaxSimpleW) \X (1..MaxSimpleH),
        c \in SimpleColors \X SimpleColors,
        p \in 0..(MaxSimpleW * MaxSimpleH - 1)}

\* Settings within the sliders (threshold 50..200, smoothing 0..5).
SimpleSettings == [threshold : {100, 128, 200}, smoothing : {0, 2, 5}]

InitSimple ==
    /\ pc = "onload"
    /\ originalImage \in SimpleImages
    /\ settings \in SimpleSettings
    /\ processedImage = Null
    /\ isProcessing = TRUE
    /\ reading = {}
    /\ pending = {[image |-> originalImage, settings |-> settings]}
    /\ NoRun

SpecSimple == InitSimple /\ [][SimpleImgOnload]_vars

(* Properties of the simple variant *)

SimpleDone == pc = "done"

\* Whether the pixel idx of the input is brighter than the threshold.
SimpleBright(idx) ==
    simpleBrighter(originalImage.data[4 * idx], originalImage.data[4 * idx + 1],
                   originalImage.data[4 * idx + 2], settings.threshold, 1, 1)

\* C11 as stated: after the simple run every pixel whose luminance exceeds
\* the threshold has alpha 0, whatever its position in the image.
C11_BrightIsTransparentAnywhere ==
    SimpleDone =>
        \A idx \in 0..(width * height - 1) :
            SimpleBright(idx) => imageData.data[4 * idx + 3] = 0

\* What the code does instead: a pixel brighter than the threshold has alpha
\* 0 exactly when its byte offset is at most 4 * width (the first row and
\* the first pixel of the second) or at least length - 4 * width (the last
\* row); elsewhere it keeps its alpha less 20 * smoothing, floored at 0.
SimpleBrightByPosition ==
    SimpleDone =>
        \A idx \in 0..(width * height - 1) :
            SimpleBright(idx) =>
                imageData.data[4 * idx + 3] =
                    IF idx <= width \/ idx >= width * (height - 1) THEN 0
                    ELSE IF originalImage.data[4 * idx + 3] > 20 * settings.smoothing
                    THEN originalImage.data[4 * idx + 3] - 20 * settings.smoothing
                    ELSE 0

\* C11's failing case: a white raster of 2x3, whose pixel (1, 1) is brighter
\* than the threshold and ends with alpha 255 - 20 * smoothing > 0.
C11_Witness ==
    /\ SimpleDone
    /\ width = 2 /\ height = 3
    /\ \A j \in DOMAIN originalImage.data : originalImage.data[j] = 255
    /\ SimpleBright(3)
    /\ imageData.data[4 * 3 + 3] = 255 - 20 * settings.smoothing
    /\ imageData.data[4 * 2 + 3] = 0

----------------------------------------------------------------------------
(* The handlers of the component *)

\* The file reads the model lets be in flight at once.
MaxReads == 1

\* A file the browser cannot decode: its data URL fires the error event of
\* an Image, never load.
Undecodable == [decodes |-> FALSE]

\* An image without pixels: it loads with width 0 and height 0.
EmptyImage == [width |-> 0, height |-> 0, data |-> <<>>]

\* Whether the file loads as an image.
Decodes(file) == file # Undecodable

\* ctx.getImageData(0, 0, canvas.width, canvas.height) throws IndexSizeError
\* when the width or the height is 0: img.onload ends there, outside the try
\* of removeBackground, which has returned.
GetImageDataThrows(img) == img.width = 0 \/ img.height = 0

\* handleFileUpload with an image file: the read of the file starts.  The
\* input is mounted only while originalImage is null; without a file, or with
\* a file that is no image, the handler returns and nothing changes.  The
\* model lets at most MaxReads reads be in flight.
handleFileUpload(file) ==
    /\ originalImage = Null
    /\ Cardinality(reading \cup {file}) <= MaxReads
    /\ reading' = reading \cup {file}
    /\ UNCHANGED <<originalImage, processedImage, isProcessing, settings,
                   pending, runVars, pc>>

\* reader.onload of the read of file.
readerOnload(file) ==
    /\ file \in reading
    /\ originalImage' = file
    /\ processedImage' = Null
    /\ reading' = reading \ {file}
    /\ UNCHANGED <<isProcessing, settings, pending, runVars, pc>>

\* removeBackground, clicked on its button (mounted with originalImage,
\* disabled while isProcessing), with a 2d context: the flag rises and the
\* image load starts, with the image and the settings of the closure.
removeBackground ==
    /\ originalImage # Null
    /\ ~isProcessing
    /\ isProcessing' = TRUE
    /\ pending' = pending \cup {[image |-> originalImage, settings |-> settings]}
    /\ UNCHANGED <<originalImage, processedImage, settings, reading, runVars, pc>>

\* removeBackground when canvas.getContext('2d') is null: the throw is
\* caught, and the flag raised before the try is lowered in the same event.
removeBackgroundNoContext ==
    /\ originalImage # Null
    /\ ~isProcessing
    /\ isProcessing' = FALSE
    /\ UNCHANGED <<originalImage, processedImage, settings, reading, pending,
                   runVars, pc>>

\* The error event of the image load p: no handler is registered for it.
imgError(p) ==
    /\ p \in pending
    /\ ~Decodes(p.image)
    /\ pending' = pending \ {p}
    /\ UNCHANGED <<originalImage, processedImage, isProcessing, settings,
                   reading, runVars, pc>>

\* img.onload of the load p when getImageData throws: the callback ends
\* before any set of the state.
imgOnloadThrows(p) ==
    /\ p \in pending
    /\ Decodes(p.image) /\ GetImageDataThrows(p.image)
    /\ pending' = pending \ {p}
    /\ UNCHANGED <<originalImage, processedImage, isProcessing, settings,
                   reading, runVars, pc>>

\* img.onload of the load p when the image has pixels.
imgOnloadDone(p) ==
    /\ Decodes(p.image) /\ ~GetImageDataThrows(p.image)
    /\ imgOnload(p)

\* resetImage, clicked on its button (mounted with originalImage).
resetImage ==
    /\ originalImage # Null
    /\ originalImage' = Null
    /\ processedImage' = Null
    /\ UNCHANGED <<isProcessing, settings, reading, pending, runVars, pc>>

\* onValueChange of a slider (mounted with originalImage): the settings
\* with the value of that slider replaced.
onValueChange(next) ==
    /\ originalImage # Null
    /\ settings' = next
    /\ UNCHANGED <<originalImage, processedImage, isProcessing, reading,
                   pending, runVars, pc>>

(* The component under its events, in any order *)

\* The longer side of the second raster the user can choose.
MaxShellSide == 2

\* The files the user can choose: two rasters, a file that is no image
\* inside and an image without pixels.
ShellRasters ==
    {MakeImage(1, 1, [i \in 0..0 |-> Blue]),
     PaintedImage(MaxShellSide, 1, Blue, MaxShellSide - 1, Red,
                  MaxShellSide - 1, Red)}

ShellFiles == ShellRasters \cup {Undecodable, EmptyImage}

\* The slider positions tried (of 10..100, 1..10 and 0..5).
ShellTolerances == {30}
ShellEdgeDetections == {5}
ShellFeatherings == {0, 2}

ShellSettings ==
    [colorTolerance : ShellTolerances, edgeDetection : ShellEdgeDetections,
     feathering : ShellFeatherings]

\* The settings one move of one slider leads to.
SliderMoves ==
    ({[settings EXCEPT !.colorTolerance = v] : v \in ShellTolerances}
     \cup {[settings EXCEPT !.edgeDetection = v] : v \in ShellEdgeDetections}
     \cup {[settings EXCEPT !.feathering = v] : v \in ShellFeatherings})
    \ {settings}

InitShell == pc = "idle" /\ ShellIdle /\ NoRun

HandleFileUpload == \E file \in ShellFiles : handleFileUpload(file)
ReaderOnload == \E file \in reading : readerOnload(file)
RemoveBackground == removeBackground
RemoveBackgroundNoContext == removeBackgroundNoContext
ImgError == \E p \in pending : imgError(p)
ImgOnloadThrows == \E p \in pending : imgOnloadThrows(p)
ImgOnloadDone == \E p \in pending : imgOnloadDone(p)
ResetImage == resetImage
OnValueChange == \E next \in SliderMoves : onValueChange(next)

NextShell ==
    \/ HandleFileUpload
    \/ ReaderOnload
    \/ RemoveBackground
    \/ RemoveBackgroundNoContext
    \/ ImgError
    \/ ImgOnloadThrows
    \/ ImgOnloadDone
    \/ ResetImage
    \/ OnValueChange

SpecShell == InitShell /\ [][NextShell]_vars

\* A pending load whose callback runs to its end: the state predicate
\* ENABLED <<ImgOnloadDone>>_vars is equivalent to (the step removes p from
\* pending, so it changes vars).
ImgOnloadDoneEnabled ==
    \E p \in pending : Decodes(p.image) /\ ~GetImageDataThrows(p.image)

\* WF_vars(ImgOnloadDone), written out with its enabling condition.
FairImgOnloadDone ==
    <>[]ImgOnloadDoneEnabled => []<><<ImgOnloadDone>>_vars

\* The browser delivers the events it owes: the load or the error of every
\* image load and the load of every file read.  Nothing is owed by the user.
SpecShellLive ==
    /\ SpecShell
    /\ WF_vars(ReaderOnload)
    /\ FairImgOnloadDone
    /\ WF_vars(ImgOnloadThrows)
    /\ WF_vars(ImgError)

(* Properties of the component *)

\* The data URLs that processing the image can publish, one per settings.
ResultsOf(img) ==
    {toDataURL(onloadRun(img, st).imageData) : st \in ShellSettings}

\* C12 as stated: whenever processedImage is not null, originalImage is not
\* null and processedImage is the result of processing it.
C12_ResultOfCurrentImage ==
    processedImage # Null =>
        /\ originalImage # Null
        /\ originalImage \in ShellRasters
        /\ processedImage \in ResultsOf(originalImage)

\* C12's failing case: a result is on display and no image is loaded.
C12_Witness ==
    /\ processedImage # Null
    /\ originalImage = Null
    /\ ~isProcessing /\ pending = {}

\* C13 as stated: isProcessing, once true, becomes false again, and while it
\* is true no run is started.
C13_ProcessingEnds ==
    /\ isProcessing ~> ~isProcessing
    /\ [][isProcessing => pending' \subseteq pending]_vars

\* C13's failing case: the flag is up, no image load is in flight and none
\* can be started.
C13_Witness ==
    /\ isProcessing
    /\ pending = {}
    /\ originalImage # Null
    /\ ~ENABLED RemoveBackground

====
